---- MODULE Spec2Model ----
(***************************************************************************)
(* A model of imagen.py: one invocation of the command-line client, either *)
(* create_image or edit_image, from the parsed arguments to the return of  *)
(* the command function.  The remote service, the clock and the local file *)
(* system are the environment: every outcome they can produce is a         *)
(* nondeterministic choice.                                                *)
(***************************************************************************)
EXTENDS Integers, Sequences, FiniteSets, TLC

\* ------------------------------------------------------------------ bounds
\* longest "data" sequence of a response
MaxItems == 3
\* longest list of source images given to edit
MaxPaths == 2
\* the wall clock reads a second in 0..MaxClock at each save, in any order
MaxClock == 1

\* ------------------------------------------------------- program constants
\* the only status handle_api_response treats as success
StatusOk == 200
\* edit_image warns above this many source images
MaxEditImages == 16

\* --------------------------------------------------------- Python values
\* Python's None / a value, for optional arguments
None == << >>
Some(v) == << v >>

\* one printed line (or block) of console output
Msg(tag, n, s) == [tag |-> tag, n |-> n, s |-> s]

\* ------------------------------------------------------------- base64
\* A payload is a sequence of base64 symbols: 0..63 the alphabet, Pad "=".
Pad == 64
\* "YQ==", which decodes to the one byte 97
GoodB64 == << 24, 16, Pad, Pad >>
\* "YQ=", which base64.b64decode rejects (incorrect padding)
BadB64 == << 24, 16, Pad >>

IsSym(c) == c # Pad
IsPad(c) == c = Pad

\* the bytes of a run of alphabet symbols, four symbols to three bytes
RECURSIVE B64Bytes(_)
B64Bytes(d) ==
  IF Len(d) >= 4
    THEN << d[1] * 4 + d[2] \div 16,
            (d[2] % 16) * 16 + d[3] \div 4,
            (d[3] % 4) * 64 + d[4] >> \o B64Bytes(SubSeq(d, 5, Len(d)))
  ELSE IF Len(d) = 3
    THEN << d[1] * 4 + d[2] \div 16, (d[2] % 16) * 16 + d[3] \div 4 >>
  ELSE IF Len(d) = 2
    THEN << d[1] * 4 + d[2] \div 16 >>
  ELSE << >>

\* base64.b64decode(s): [ok |-> TRUE, bytes |-> ...] or a binascii.Error
B64Decode(s) ==
  LET d    == SelectSeq(s, IsSym)
      npad == Len(SelectSeq(s, IsPad))
      need == CASE Len(d) % 4 = 0 -> 0
                [] Len(d) % 4 = 2 -> 2
                [] Len(d) % 4 = 3 -> 1
                [] OTHER -> 99
  IN IF npad >= need THEN [ok |-> TRUE, bytes |-> B64Bytes(d)]
                     ELSE [ok |-> FALSE, bytes |-> << >>]

\* ---------------------------------------------------- the response body
\* An element of "data".  t is the JSON type as Python sees it: "dict" a
\* mapping, "scalar" null or a number (on which `in` raises TypeError).
Item(t, keys, b64) == [t |-> t, keys |-> keys, b64 |-> b64]
ImgOk   == Item("dict", {"b64_json"}, GoodB64)
ImgBad  == Item("dict", {"b64_json"}, BadB64)
NoB64   == Item("dict", {}, << >>)
Scalar  == Item("scalar", {}, << >>)
Items == {ImgOk, ImgBad, NoB64, Scalar}

ItemSeqs == UNION {[1..k -> Items] : k \in 0..MaxItems}

\* the value under "data": a list, or a non-list that is falsy (null, 0,
\* "", {}) or truthy
DataVal(t, items) == [t |-> t, items |-> items]
DataVals == {DataVal("list", s) : s \in ItemSeqs}
              \cup {DataVal("falsy", << >>), DataVal("truthy", << >>)}

\* the value under "usage": null, a mapping, or something that is neither
UsageVals == {"null", "dict", "nonmap"}

\* A parsed body.  t: "dict" a mapping with the keys `keys`; "seq" a string
\* or list, which supports `in` (has_data: whether it contains "data") but
\* not subscripting by a string; "scalar" null or a number.
Body(t, keys, has_data, data, usage) ==
  [t |-> t, keys |-> keys, has_data |-> has_data, data |-> data, usage |-> usage]
NoData == DataVal("falsy", << >>)
DictBodies ==
  {Body("dict", {"data", "usage"}, TRUE, d, u) : d \in DataVals, u \in UsageVals}
    \cup {Body("dict", {"data"}, TRUE, d, "null") : d \in DataVals}
    \cup {Body("dict", {"usage"}, FALSE, NoData, u) : u \in UsageVals}
    \cup {Body("dict", {}, FALSE, NoData, "null")}
OtherBodies ==
  {Body("seq", {}, TRUE, NoData, "null"), Body("seq", {}, FALSE, NoData, "null"),
   Body("scalar", {}, FALSE, NoData, "null")}
ErrorBody == Body("dict", {}, FALSE, NoData, "null")

\* What response.json() does with the body text: "ok" returns the parsed
\* value, "jsonerr" raises JSONDecodeError, "recursion" raises
\* RecursionError (the json module on a deeply nested body).
ParseOutcomes == {"ok", "jsonerr", "recursion"}
Response(status, parse, body) == [status |-> status, parse |-> parse, body |-> body]
Responses ==
  {Response(StatusOk, "ok", b) : b \in DictBodies \cup OtherBodies}
    \cup {Response(StatusOk, p, ErrorBody) : p \in {"jsonerr", "recursion"}}
    \cup {Response(400, "ok", b) : b \in DictBodies \cup OtherBodies}
    \cup {Response(400, p, ErrorBody) : p \in {"jsonerr", "recursion"}}
NoResponse == Response(0, "ok", ErrorBody)

\* Python's `key in v`: "True", "False" or "TypeError"
In(key, v) ==
  CASE v.t = "dict" -> IF key \in v.keys THEN "True" ELSE "False"
    [] v.t = "seq" -> IF key = "data" /\ v.has_data THEN "True" ELSE "False"
    [] OTHER -> "TypeError"

\* ------------------------------------------------------- the file system
\* three paths: a readable file, a path that does not exist, and a path
\* that exists but cannot be opened for reading (a directory)
Paths == {"ok.png", "missing.png", "dir.png"}
Exists(p) == p # "missing.png"
OpenRaises(p) == p = "dir.png"

PathSeqs == UNION {[1..k -> Paths] : k \in 1..MaxPaths}

\* ------------------------------------------------------------- arguments
Formats == {"png", "jpeg", "webp"}
Compressions == {None, Some(0), Some(50)}

CreateArgs ==
  {[prompt |-> "p", n |-> 1, quality |-> "low", size |-> "1024x1024",
    background |-> "opaque", output_format |-> f, output_compression |-> c,
    moderation |-> "low", user |-> None, output_prefix |-> "gen"] :
      f \in Formats, c \in Compressions}

EditArgs ==
  {[image_paths |-> ps, prompt |-> "p", mask_path |-> m, n |-> 1,
    quality |-> "low", size |-> "1024x1024", user |-> None,
    output_prefix |-> "edi"] :
      ps \in PathSeqs, m \in {None} \cup {Some(p) : p \in Paths}}

\* Python truthiness of an optional string argument
Truthy(opt) == opt # None /\ opt[1] # ""

\* ------------------------------------------------------- pure functions
\* CreatePayload with the compression tested for truth instead of for None
CreatePayloadTruthy(a) ==
  [prompt |-> a.prompt, model |-> "gpt-image-1", n |-> a.n,
   quality |-> a.quality, size |-> a.size, background |-> a.background,
   output_format |-> a.output_format]
    @@ (IF Truthy(a.user) THEN [user |-> a.user[1]] ELSE << >>)
    @@ (IF a.output_compression # None /\ a.output_compression[1] # 0
           /\ a.output_format \in {"jpeg", "webp"}
          THEN [output_compression |-> a.output_compression[1]] ELSE << >>)
    @@ (IF a.moderation # "" THEN [moderation |-> a.moderation] ELSE << >>)

\* create_image's request payload: a mapping from key to value
CreatePayload(a) ==
  [prompt |-> a.prompt, model |-> "gpt-image-1", n |-> a.n,
   quality |-> a.quality, size |-> a.size, background |-> a.background,
   output_format |-> a.output_format]
    @@ (IF Truthy(a.user) THEN [user |-> a.user[1]] ELSE << >>)
    @@ (IF a.output_compression # None /\ a.output_format \in {"jpeg", "webp"}
          THEN [output_compression |-> a.output_compression[1]] ELSE << >>)
    @@ (IF a.moderation # "" THEN [moderation |-> a.moderation] ELSE << >>)

\* edit_image's form fields
EditPayload(a) ==
  [prompt |-> a.prompt, model |-> "gpt-image-1", n |-> a.n,
   quality |-> a.quality, size |-> a.size]
    @@ (IF Truthy(a.user) THEN [user |-> a.user[1]] ELSE << >>)

\* two decimal digits
Pad2(n) == IF n < 10 THEN "0" \o ToString(n) ELSE ToString(n)
\* datetime.now().strftime("%Y%m%d_%H%M%S") when the clock reads second c
Strftime(c) == "20250101_0000" \o Pad2(c)

\* Filename without the index suffix
FilenameNoIndex(prefix, c, index, fmt) ==
  prefix \o "_" \o Strftime(c) \o "." \o fmt

\* the name save_image_from_b64 gives the file
Filename(prefix, c, index, fmt) ==
  prefix \o "_" \o Strftime(c) \o "_" \o ToString(index + 1) \o "." \o fmt

\* what open(filename, "wb") then write can do
WriteOutcomes == {"ok", "oserror"}
Clock == 0..MaxClock

\* save_image_from_b64(b64, prefix, index, fmt) when the clock reads c and
\* the write does w: the value returned (None or the filename), the file
\* written if any, and the line printed
SaveImage(b64, prefix, index, fmt, c, w) ==
  LET dec  == B64Decode(b64)
      name == Filename(prefix, c, index, fmt)
  IN IF dec.ok /\ w = "ok"
       THEN [ret |-> Some(name), bytes |-> dec.bytes, msg |-> Msg("saved", index, name)]
       ELSE [ret |-> None, bytes |-> << >>, msg |-> Msg("error_saving", index, "")]

\* ------------------------------------------------------------------ state
VARIABLES
  cmd,            \* "create" or "edit": the sub-command
  args,           \* the parsed arguments
  pc,             \* where the invocation is
  payload,        \* payload / data_payload once built
  k,              \* edit: position in image_paths while opening
  opened_files,   \* edit: [path, field, closed] for every handle opened
  files_to_send,  \* edit: the multipart file parts
  posted,         \* number of POSTs issued
  response,       \* the response of the POST
  i,              \* handle_api_response: position in data["data"]
  exc,            \* the exception being handled in handle_api_response
  calls,          \* the calls of save_image_from_b64, in order
  disk,           \* files written: a set of [name, bytes]
  out,            \* console output, in order
  raised          \* the exception that left the command function, or "none"

vars == << cmd, args, pc, payload, k, opened_files, files_to_send, posted,
           response, i, exc, calls, disk, out, raised >>

editVars == << k, opened_files, files_to_send >>
handleVars == << response, i, exc, calls, disk >>

Init ==
  /\ \/ cmd = "create" /\ args \in CreateArgs
     \/ cmd = "edit" /\ args \in EditArgs
  /\ pc = "start"
  /\ payload = << >>
  /\ k = 1
  /\ opened_files = << >>
  /\ files_to_send = << >>
  /\ posted = 0
  /\ response = NoResponse
  /\ i = 0
  /\ exc = "none"
  /\ calls = << >>
  /\ disk = {}
  /\ out = << >>
  /\ raised = "none"

CloseAll(fs) == [j \in DOMAIN fs |-> [fs[j] EXCEPT !.closed = TRUE]]

\* ------------------------------------------------------------ create_image
\* lines 79-100: announce, build the payload
CreateRequest ==
  /\ pc = "start" /\ cmd = "create"
  /\ payload' = CreatePayload(args)
  /\ out' = Append(out, Msg("creating", 0, ""))
  /\ pc' = "post"
  /\ UNCHANGED << cmd, args, editVars, posted, handleVars, raised >>

\* lines 104-108: handle_api_response has returned or raised; only a
\* RequestException is caught here, and that was handled at the POST
CreateReturn ==
  /\ pc = "return" /\ cmd = "create"
  /\ pc' = "done"
  /\ UNCHANGED << cmd, args, payload, editVars, posted, handleVars, out, raised >>

\* -------------------------------------------------------------- edit_image
\* lines 112-126: announce, warn, start with no file opened
EditBegin ==
  /\ pc = "start" /\ cmd = "edit"
  /\ out' = out \o << Msg("editing", 0, "") >>
       \o (IF Len(args.image_paths) > MaxEditImages
             THEN << Msg("warn_too_many", Len(args.image_paths), "") >> ELSE << >>)
       \o (IF Truthy(args.mask_path) /\ Len(args.image_paths) > 1
             THEN << Msg("note_mask", 0, "") >> ELSE << >>)
  /\ pc' = "open"
  /\ UNCHANGED << cmd, args, payload, editVars, posted, handleVars, raised >>

\* the path the opening code is at: a source image, then the mask
AtImage == k <= Len(args.image_paths)
AtMask == k = Len(args.image_paths) + 1 /\ Truthy(args.mask_path)
CurPath == IF AtImage THEN args.image_paths[k] ELSE args.mask_path[1]
CurField == IF AtImage THEN "image[]" ELSE "mask"

\* lines 129-134 and 136-141: the path exists and opens
EditOpen ==
  /\ pc = "open" /\ (AtImage \/ AtMask)
  /\ Exists(CurPath) /\ ~OpenRaises(CurPath)
  /\ opened_files' = Append(opened_files,
                            [path |-> CurPath, field |-> CurField, closed |-> FALSE])
  /\ files_to_send' = Append(files_to_send, << CurField, CurPath >>)
  /\ k' = k + 1
  /\ UNCHANGED << cmd, args, pc, payload, posted, handleVars, out, raised >>

\* EditFileNotFound reporting the missing path and going on to the next
EditFileNotFoundSkips ==
  /\ pc = "open" /\ (AtImage \/ AtMask)
  /\ ~Exists(CurPath)
  /\ out' = Append(out, Msg("error_not_found", k, CurPath))
  /\ k' = k + 1
  /\ UNCHANGED << cmd, args, pc, payload, opened_files, files_to_send, posted,
                  handleVars, raised >>

\* lines 130-131, 137-138 and 143-147: the path does not exist
EditFileNotFound ==
  /\ pc = "open" /\ (AtImage \/ AtMask)
  /\ ~Exists(CurPath)
  /\ out' = Append(out, Msg("error_not_found", k, CurPath))
  /\ opened_files' = CloseAll(opened_files)
  /\ pc' = "done"
  /\ UNCHANGED << cmd, args, payload, k, files_to_send, posted, handleVars, raised >>

\* lines 132, 139 and 148-152: the path exists and open() raises
EditOpenError ==
  /\ pc = "open" /\ (AtImage \/ AtMask)
  /\ Exists(CurPath) /\ OpenRaises(CurPath)
  /\ out' = Append(out, Msg("error_opening", k, CurPath))
  /\ opened_files' = CloseAll(opened_files)
  /\ pc' = "done"
  /\ UNCHANGED << cmd, args, payload, k, files_to_send, posted, handleVars, raised >>

\* lines 154-162: every file is open, build the form fields
EditRequest ==
  /\ pc = "open" /\ ~AtImage /\ ~AtMask
  /\ payload' = EditPayload(args)
  /\ pc' = "post"
  /\ UNCHANGED << cmd, args, editVars, posted, handleVars, out, raised >>

\* EditFinally closing the files after the try statement, not in a finally
EditFinallyLeaks ==
  /\ pc = "return" /\ cmd = "edit"
  /\ opened_files' = IF raised = "none" THEN CloseAll(opened_files) ELSE opened_files
  /\ pc' = "done"
  /\ UNCHANGED << cmd, args, payload, k, files_to_send, posted, handleVars, out, raised >>

\* lines 172-174: the finally clause, on return and on an exception alike
EditFinally ==
  /\ pc = "return" /\ cmd = "edit"
  /\ opened_files' = CloseAll(opened_files)
  /\ pc' = "done"
  /\ UNCHANGED << cmd, args, payload, k, files_to_send, posted, handleVars, out, raised >>

\* ------------------------------------------------------------ the request
\* lines 105/107-108 and 168/170-171: requests.post raises a
\* RequestException (connection error, timeout), which is caught and printed
PostFails ==
  /\ pc = "post"
  /\ posted' = posted + 1
  /\ out' = Append(out, Msg("request_failed", 0, ""))
  /\ pc' = "return"
  /\ UNCHANGED << cmd, args, payload, editVars, handleVars, raised >>

\* lines 105 and 168: requests.post returns a response
PostResponds ==
  /\ pc = "post"
  /\ posted' = posted + 1
  /\ \E r \in Responses : response' = r
  /\ pc' = "handle"
  /\ UNCHANGED << cmd, args, payload, editVars, i, exc, calls, disk, out, raised >>

\* ------------------------------------------------------ handle_api_response
body == response.body
items == body.data.items
\* the prefix and format handle_api_response is called with (lines 106, 169)
Prefix == args.output_prefix
SaveFormat == IF cmd = "create" THEN args.output_format ELSE "png"

\* line 39: "data" in data and isinstance(data["data"], list)
DataIsList == In("data", body) = "True" /\ body.data.t = "list"

\* HandleNon200 going on to read the images of a parsed error body
HandleNon200FallsThrough ==
  /\ pc = "handle" /\ response.status # StatusOk
  /\ out' = out \o << Msg("error_status", response.status, "") >>
       \o (CASE response.parse = "ok" -> << Msg("error_details", 0, "") >>
             [] response.parse = "jsonerr" -> << Msg("error_raw", 0, "") >>
             [] OTHER -> << >>)
  /\ raised' = IF response.parse = "recursion" THEN "RecursionError" ELSE raised
  /\ pc' = IF response.parse = "ok" THEN "data" ELSE "return"
  /\ UNCHANGED << cmd, args, payload, editVars, posted, handleVars >>

\* lines 68-74: a status other than 200.  The body is printed parsed, or
\* raw on a JSONDecodeError; any other exception of response.json() leaves
\* handle_api_response.
HandleNon200 ==
  /\ pc = "handle" /\ response.status # StatusOk
  /\ out' = out \o << Msg("error_status", response.status, "") >>
       \o (CASE response.parse = "ok" -> << Msg("error_details", 0, "") >>
             [] response.parse = "jsonerr" -> << Msg("error_raw", 0, "") >>
             [] OTHER -> << >>)
  /\ raised' = IF response.parse = "recursion" THEN "RecursionError" ELSE raised
  /\ pc' = "return"
  /\ UNCHANGED << cmd, args, payload, editVars, posted, handleVars >>

\* lines 34-36 and 61-63: status 200, response.json()
HandleParse ==
  /\ pc = "handle" /\ response.status = StatusOk
  /\ CASE response.parse = "ok" ->
            /\ pc' = "data"
            /\ UNCHANGED << out, exc >>
       [] response.parse = "jsonerr" ->
            /\ out' = out \o << Msg("error_decode", 0, ""), Msg("raw_text", 0, "") >>
            /\ pc' = "return"
            /\ UNCHANGED exc
       [] OTHER ->
            /\ exc' = "RecursionError"
            /\ pc' = "except"
            /\ UNCHANGED out
  /\ UNCHANGED << cmd, args, payload, editVars, posted, response, i, calls, disk, raised >>

\* lines 39 and 45-46: the shape of the parsed body
HandleData ==
  /\ pc = "data"
  /\ CASE In("data", body) = "TypeError" \/ (In("data", body) = "True" /\ body.t # "dict") ->
            /\ exc' = "TypeError"
            /\ pc' = "except"
            /\ UNCHANGED << out, i >>
       [] DataIsList ->
            /\ i' = 0
            /\ pc' = IF Len(items) = 0 THEN "usage" ELSE "loop"
            /\ UNCHANGED << out, exc >>
       [] OTHER ->
            /\ out' = Append(out, Msg("unexpected_structure", 0, ""))
            /\ pc' = "usage"
            /\ UNCHANGED << exc, i >>
  /\ UNCHANGED << cmd, args, payload, editVars, posted, response, calls, disk, raised >>

\* a file written over whatever had the name
WriteFile(d, name, bytes) ==
  {f \in d : f.name # name} \cup {[name |-> name, bytes |-> bytes]}

\* HandleItem leaving the loop when a save fails
HandleItemStops ==
  /\ pc = "loop" /\ i < Len(items)
  /\ LET item == items[i + 1]
         has  == In("b64_json", item)
     IN CASE has = "TypeError" ->
               /\ exc' = "TypeError"
               /\ pc' = "except"
               /\ UNCHANGED << i, calls, disk, out >>
          [] has = "True" ->
               \E c \in Clock, w \in WriteOutcomes :
                 LET r == SaveImage(item.b64, Prefix, i, SaveFormat, c, w)
                 IN /\ calls' = Append(calls, [pos |-> i, index |-> i, ret |-> r.ret])
                    /\ disk' = IF r.ret # None
                                 THEN WriteFile(disk, r.ret[1], r.bytes) ELSE disk
                    /\ out' = Append(out, r.msg)
                    /\ i' = i + 1
                    /\ pc' = IF i + 1 = Len(items) \/ r.ret = None
                               THEN "usage" ELSE "loop"
                    /\ UNCHANGED exc
          [] OTHER ->
               /\ out' = Append(out, Msg("warn_item", i, ""))
               /\ i' = i + 1
               /\ pc' = IF i + 1 = Len(items) THEN "usage" ELSE "loop"
               /\ UNCHANGED << exc, calls, disk >>
  /\ UNCHANGED << cmd, args, payload, editVars, posted, response, raised >>

\* lines 40-44: one element of data["data"]; save_image_from_b64 (lines
\* 18-30) runs inside the step
HandleItem ==
  /\ pc = "loop" /\ i < Len(items)
  /\ LET item == items[i + 1]
         has  == In("b64_json", item)
     IN CASE has = "TypeError" ->
               /\ exc' = "TypeError"
               /\ pc' = "except"
               /\ UNCHANGED << i, calls, disk, out >>
          [] has = "True" ->
               \E c \in Clock, w \in WriteOutcomes :
                 LET r == SaveImage(item.b64, Prefix, i, SaveFormat, c, w)
                 IN /\ calls' = Append(calls, [pos |-> i, index |-> i, ret |-> r.ret])
                    /\ disk' = IF r.ret # None
                                 THEN WriteFile(disk, r.ret[1], r.bytes) ELSE disk
                    /\ out' = Append(out, r.msg)
                    /\ i' = i + 1
                    /\ pc' = IF i + 1 = Len(items) THEN "usage" ELSE "loop"
                    /\ UNCHANGED exc
          [] OTHER ->
               /\ out' = Append(out, Msg("warn_item", i, ""))
               /\ i' = i + 1
               /\ pc' = IF i + 1 = Len(items) THEN "usage" ELSE "loop"
               /\ UNCHANGED << exc, calls, disk >>
  /\ UNCHANGED << cmd, args, payload, editVars, posted, response, raised >>

\* line 56: "data" in data and not data["data"]
DataIsFalsy ==
  In("data", body) = "True"
    /\ (body.data.t = "falsy" \/ (body.data.t = "list" /\ Len(items) = 0))

\* lines 48-59: usage, or else the empty-data message, or else the shape
\* warning
HandleUsage ==
  /\ pc = "usage"
  /\ IF In("usage", body) = "True" /\ body.usage # "null"
       THEN IF body.usage = "dict"
              THEN /\ out' = out \o << Msg("usage_header", 0, ""), Msg("usage", 0, "") >>
                   /\ pc' = "return"
                   /\ UNCHANGED exc
              ELSE /\ out' = Append(out, Msg("usage_header", 0, ""))
                   /\ exc' = "AttributeError"
                   /\ pc' = "except"
       ELSE IF DataIsFalsy
              THEN /\ out' = Append(out, Msg("no_images", 0, ""))
                   /\ pc' = "return"
                   /\ UNCHANGED exc
              ELSE IF ~DataIsList
                     THEN /\ out' = Append(out, Msg("warn_no_usage", 0, ""))
                          /\ pc' = "return"
                          /\ UNCHANGED exc
                     ELSE /\ pc' = "return"
                          /\ UNCHANGED << out, exc >>
  /\ UNCHANGED << cmd, args, payload, editVars, posted, response, i, calls, disk, raised >>

\* lines 64-66: any other exception: print it, then print response.json(),
\* which parses the body again and raises again if it raised before
HandleExcept ==
  /\ pc = "except"
  /\ out' = out \o << Msg("error_processing", 0, exc) >>
       \o (IF response.parse = "ok" THEN << Msg("raw_json", 0, "") >> ELSE << >>)
  /\ raised' = IF response.parse = "ok" THEN raised ELSE "RecursionError"
  /\ exc' = "none"
  /\ pc' = "return"
  /\ UNCHANGED << cmd, args, payload, editVars, posted, response, i, calls, disk >>

\* ---------------------------------------------------------- specification
Next ==
  \/ CreateRequest
  \/ CreateReturn
  \/ EditBegin
  \/ EditOpen
  \/ EditFileNotFound
  \/ EditOpenError
  \/ EditRequest
  \/ EditFinally
  \/ PostFails
  \/ PostResponds
  \/ HandleNon200
  \/ HandleParse
  \/ HandleData
  \/ HandleItem
  \/ HandleUsage
  \/ HandleExcept

Spec == Init /\ [][Next]_vars

\* ------------------------------------------------------------ properties
Done == pc = "done"
Printed(tag) == \E j \in DOMAIN out : out[j].tag = tag
PrintedAt(tag, n) == \E j \in DOMAIN out : out[j].tag = tag /\ out[j].n = n
Parsed200 == response.status = StatusOk /\ response.parse = "ok"
HasPayload(item) == In("b64_json", item) = "True"
SavedCalls == {a \in DOMAIN calls : calls[a].ret # None}
AllClosed == \A j \in DOMAIN opened_files : opened_files[j].closed

\* edit: some source image, at any position, or the mask does not exist
MissingReferenced ==
  /\ cmd = "edit"
  /\ \/ \E j \in DOMAIN args.image_paths : ~Exists(args.image_paths[j])
     \/ Truthy(args.mask_path) /\ ~Exists(args.mask_path[1])

\* C1: an edit invocation that references a path which does not exist never
\* issues the POST, at whatever position the missing path is.
C1_NoPostWhenPathMissing == MissingReferenced => posted = 0

\* C1 witness: the second image is missing, the first was opened, the
\* invocation has ended with the error printed and nothing posted
C1_Witness ==
  /\ Done /\ cmd = "edit"
  /\ args.image_paths = << "ok.png", "missing.png" >>
  /\ Len(opened_files) = 1
  /\ PrintedAt("error_not_found", 2)
  /\ posted = 0

\* C2: when edit_image has ended, by return or by an exception, every file
\* handle it opened is closed.
C2_HandlesClosedOnExit == (Done /\ cmd = "edit") => AllClosed

\* C2 witness: an exception left edit_image after the POST, with an image
\* and the mask open; both are closed
C2_Witness ==
  /\ Done /\ cmd = "edit"
  /\ raised # "none" /\ posted = 1
  /\ Len(opened_files) >= 2
  /\ opened_files[Len(opened_files)].field = "mask"
  /\ AllClosed

\* C3: a 200 response whose "data" is an empty sequence gets the no-images
\* message and not the unexpected-structure warning, with or without a
\* non-null "usage"; and no body gets both messages.
C3_EmptyDataReported ==
  Done =>
    /\ (Parsed200 /\ DataIsList /\ Len(items) = 0)
         => (Printed("no_images") /\ ~Printed("unexpected_structure"))
    /\ ~(Printed("no_images") /\ Printed("unexpected_structure"))

\* C4: when the save of element p fails, the failure is reported, no path
\* is returned, and the save of every later element that carries an image
\* payload is attempted.
C4_LaterSavesAttempted ==
  (Done /\ Parsed200 /\ DataIsList) =>
    \A a \in DOMAIN calls :
      calls[a].ret = None =>
        /\ PrintedAt("error_saving", calls[a].index)
        /\ \A j \in DOMAIN items :
             (j - 1 > calls[a].pos /\ HasPayload(items[j]))
               => \E b \in DOMAIN calls : calls[b].pos = j - 1

\* C5: for a 200 response whose "data" has K elements, each carrying an
\* image payload, save_image_from_b64 is called K times, with the indices
\* 0, 1, ..., K-1 in this order.
C5_OneSavePerImage ==
  (Done /\ Parsed200 /\ DataIsList /\ \A j \in DOMAIN items : HasPayload(items[j]))
    => /\ Len(calls) = Len(items)
       /\ \A a \in DOMAIN calls : calls[a].index = a - 1

\* C5 witness: three payloads, the second of which failed to save
C5_Witness ==
  /\ Done /\ Parsed200 /\ DataIsList
  /\ Len(items) = 3 /\ \A j \in DOMAIN items : HasPayload(items[j])
  /\ Len(calls) = 3
  /\ calls[2].ret = None /\ calls[3].ret # None

\* C6: no exception leaves create_image or edit_image: every invocation
\* ends by returning, having printed something.
C6_NothingPropagates == Done => (raised = "none" /\ out # << >>)

\* C7: save_image_from_b64 is called, and a file written, only after the
\* POST has returned a 200 response whose body parsed.
C7_SaveOnlyAfterParsed200 ==
  (calls # << >> \/ disk # {}) => (posted = 1 /\ Parsed200)

\* C7 witness: a 400 response whose parsed body holds image payloads; the
\* error is printed and nothing is saved
C7_Witness ==
  /\ Done /\ posted = 1
  /\ response.status # StatusOk /\ response.parse = "ok"
  /\ DataIsList /\ Len(items) >= 1 /\ HasPayload(items[1])
  /\ Printed("error_details")
  /\ calls = << >> /\ disk = {}

\* C8: the create payload has the key output_compression only for jpeg and
\* webp, and for these it has it, with the value given, whenever a value
\* was given, 0 included.
C8_CompressionOnlyForLossy ==
  (cmd = "create" /\ pc # "start") =>
    LET has == "output_compression" \in DOMAIN payload
        lossy == args.output_format \in {"jpeg", "webp"}
    IN /\ has => lossy
       /\ (lossy /\ args.output_compression # None)
            => (has /\ payload.output_compression = args.output_compression[1])

\* C8 witness: jpeg with compression 0: the key is there with the value 0
C8_Witness ==
  /\ cmd = "create" /\ pc = "post"
  /\ args.output_format = "jpeg" /\ args.output_compression = Some(0)
  /\ "output_compression" \in DOMAIN payload
  /\ payload.output_compression = 0

\* C9: every element of a "data" sequence is handled: one with an image
\* payload is passed to save_image_from_b64 with its position, any other
\* gets a warning that names its position.
C9_EveryElementHandled ==
  (Done /\ Parsed200 /\ DataIsList) =>
    \A j \in DOMAIN items :
      IF items[j].t = "dict" /\ HasPayload(items[j])
        THEN \E a \in DOMAIN calls : calls[a].pos = j - 1 /\ calls[a].index = j - 1
        ELSE PrintedAt("warn_item", j - 1)

\* the name the file of the element at position p must have
ExpectedName(p, c) ==
  Prefix \o "_" \o Strftime(c) \o "_" \o ToString(p + 1) \o "." \o SaveFormat

\* C10: the files saved from one response have pairwise different names,
\* whatever the clock read at each save; each name ends in the position of
\* its element plus one; so no save overwrites another of the response.
C10_DistinctNames ==
  /\ \A a, b \in SavedCalls : a # b => calls[a].ret # calls[b].ret
  /\ \A a \in SavedCalls :
       /\ \E c \in Clock : calls[a].ret[1] = ExpectedName(calls[a].pos, c)
       /\ HasPayload(items[calls[a].pos + 1])
  /\ Cardinality(disk) = Cardinality(SavedCalls)

\* C10 witness: the first element was skipped, the second and third were
\* saved, and the clock stepped back between the two saves
C10_Witness ==
  /\ Done /\ Len(calls) = 2
  /\ ~HasPayload(items[1])
  /\ calls[1].pos = 1 /\ calls[2].pos = 2
  /\ calls[1].ret = Some(ExpectedName(1, 1))
  /\ calls[2].ret = Some(ExpectedName(2, 0))
  /\ Cardinality(disk) = 2

====
